---- MODULE Spec2Model ----
(***************************************************************************)
(* InterQR Home Assistant integration: the API client (api.py), the lock   *)
(* entity with its auto-relock timer (lock.py), the polling coordinator    *)
(* (coordinator.py), entry setup/unload (__init__.py) and the onboarding / *)
(* re-authentication config flow (config_flow.py).                         *)
(*                                                                         *)
(* Four state machines share the API client model:                         *)
(*   SpecLock   one lock entity, concurrent unlock/open/lock service calls *)
(*              and the event loop's timers;                               *)
(*   SpecFlow   one config flow at a time (user or reauth) over the        *)
(*              config-entry store;                                        *)
(*   SpecEntry  setup, polling and unload of config entries;               *)
(*   SpecApi    the methods of one API client called one after another.    *)
(***************************************************************************)
EXTENDS Integers, Sequences, FiniteSets, TLC

VARIABLES
    \* ---- InterQRLock (lock.py) ----
    attr_is_locked,      \* self._attr_is_locked
    attr_is_unlocking,   \* self._attr_is_unlocking
    cancel_relock,       \* self._cancel_relock: handle of the pending timer, NoHandle for None
    allow_long_unlock,   \* self._allow_long_unlock
    lock_uuid,           \* self._lock_uuid, a sequence of characters
    timers,              \* the event loop's pending async_call_later timers of this entity
    next_handle,         \* the handle the next async_call_later returns
    pc,                  \* per handler, the number of service calls suspended at its await
    issued,              \* number of unlock commands issued so far
    \* ---- InterQRApiClient (api.py) ----
    token,               \* self._token of the entry's client
    api_device_uuid,     \* self._device_uuid of that client
    sent,                \* requests handed to the HTTP session, in order
    \* ---- config entries, hass.data, coordinators (__init__.py, coordinator.py) ----
    entry_state,         \* per config entry: "not_loaded", "loaded", "setup_retry", "setup_error"
    api_token,           \* per config entry: self._token of the client made by async_setup_entry
    hass_data,           \* hass.data: whether DOMAIN is a key, and the entry ids under it
    coord_data,          \* per config entry: coordinator.data
    update,              \* per config entry: how the coordinator's last refresh ended
    reauth,              \* config entries for which a reauth flow was started
    \* ---- InterQRConfigFlow (config_flow.py) and the config-entry store ----
    flow,                \* the flow in progress: its fields, its current step, its result
    flow_log,            \* the API calls the flow made since the handler that last began
                         \* an authentication (login, or init_device + start_2fa) was entered
    entries,             \* the config entries of the domain
    flows,               \* number of flows started so far
    \* ---- the handler that ran last, with what it saw on entry ----
    last

entryVars == <<entry_state, api_token, hass_data, coord_data, update, reauth>>
lockVars == <<attr_is_locked, attr_is_unlocking, cancel_relock, allow_long_unlock,
              lock_uuid, timers, next_handle, pc, issued>>
apiVars == <<token, api_device_uuid, sent>>
flowVars == <<flow, flow_log, entries, flows>>
vars == <<lockVars, apiVars, entryVars, flowVars, last>>
\* what the lock entity's handlers, the entry handlers and the flow never touch
notLock == <<entryVars, flowVars>>
notEntry == <<lockVars, flowVars, token, api_device_uuid>>
notFlow == <<lockVars, entryVars, apiVars>>

(***************************************************************************)
(* Bounds of the model.                                                    *)
(***************************************************************************)
MaxCallers == 2
MaxUnlockCalls == 3
MaxSent == 3
MaxFlows == 1

(***************************************************************************)
(* const.py                                                                *)
(***************************************************************************)
RELOCK_DELAY == 5
MAX_RESPONSE_BYTES == 1048576
MAX_2FA_ATTEMPTS == 5
DEFAULT_BASE_URL == "https://www.interqr.com/api"
DEV_BASE_URL == "https://dev.interqr.com/api"

(***************************************************************************)
(* Python values.                                                          *)
(***************************************************************************)
None == "None"
NoHandle == 0
Truthy(x) == x \notin {None, ""}

Tokens == {"tokA", "tokB", "tokC", "tokD"}

(***************************************************************************)
(* api.py: identifier validation.  _SAFE_ID_PATTERN is ^[0-9a-zA-Z\-]+$    *)
(* applied with re.match; in Python "$" also matches just before a         *)
(* newline that ends the string.                                           *)
(***************************************************************************)
SafeIdChars ==
    {"0", "1", "2", "3", "4", "5", "6", "7", "8", "9", "-",
     "a", "b", "c", "d", "e", "f", "g", "h", "i", "j", "k", "l", "m",
     "n", "o", "p", "q", "r", "s", "t", "u", "v", "w", "x", "y", "z",
     "A", "B", "C", "D", "E", "F", "G", "H", "I", "J", "K", "L", "M",
     "N", "O", "P", "Q", "R", "S", "T", "U", "V", "W", "X", "Y", "Z"}

SafeIdMatch(value) ==
    LET n == Len(value)
        m == IF n > 0 /\ value[n] = "\n" THEN n - 1 ELSE n
    IN  /\ m > 0
        /\ \A i \in 1..m : value[i] \in SafeIdChars

\* TRUE when _validate_uuid returns, FALSE when it raises ValueError
validate_uuid(value) == Len(value) > 0 /\ SafeIdMatch(value)

(***************************************************************************)
(* api.py: one HTTP exchange.                                              *)
(***************************************************************************)
auth_headers(tok) ==
    IF Truthy(tok) THEN <<"Bearer", tok>> ELSE None

RequestAuthorization_always(authenticated, tok) == auth_headers(tok)

\* the Authorization header _request puts on the wire
RequestAuthorization(authenticated, tok) ==
    IF authenticated THEN auth_headers(tok) ELSE None

ContentTypes == {"application/json", "application/json; charset=utf-8", "text/html", ""}
\* "application/json" in content_type
HasJsonContentType(ct) == ct \in {"application/json", "application/json; charset=utf-8"}

BodySizes == {2, MAX_RESPONSE_BYTES, MAX_RESPONSE_BYTES + 1}
Statuses == {200, 399, 400, 401, 403, 500}

\* What the session can produce for one request: a transport failure
\* (aiohttp.ClientError, or the total timeout, which is asyncio.TimeoutError
\* and no ClientError), or a response carrying one of `bodies`.
Responses(bodies) ==
    {[transport |-> t, ctype |-> "", size |-> 0, json_ok |-> FALSE, status |-> 0,
      body |-> CHOOSE b \in bodies : TRUE] : t \in {"ClientError", "TimeoutError"}}
    \cup
    [transport : {"ok"}, ctype : ContentTypes, size : BodySizes,
     json_ok : BOOLEAN, status : Statuses, body : bodies]

\* response.content.read(MAX_RESPONSE_BYTES + 1)
ReadBody(size) == IF size > MAX_RESPONSE_BYTES + 1 THEN MAX_RESPONSE_BYTES + 1 ELSE size

\* an exception _request raises, and the check of the response that raised it
Raised(kind, check) == [kind |-> kind, check |-> check]

request_status_first(resp) ==
    IF resp.transport = "ClientError" THEN Raised("InterQRConnectionError", "transport")
    ELSE IF resp.transport = "TimeoutError" THEN Raised("TimeoutError", "transport")
    ELSE IF resp.status = 401 THEN Raised("InterQRAuthError", "status")
    ELSE IF resp.status >= 400 THEN Raised("InterQRConnectionError", "status")
    ELSE IF ~HasJsonContentType(resp.ctype)
    THEN Raised("InterQRConnectionError", "content_type")
    ELSE IF ReadBody(resp.size) > MAX_RESPONSE_BYTES
    THEN Raised("InterQRConnectionError", "size")
    ELSE IF ~resp.json_ok THEN Raised("InterQRConnectionError", "json")
    ELSE [kind |-> "data", data |-> resp.body]

\* _request: kind is "data" when it returns resp.body, else the exception raised
request(resp) ==
    IF resp.transport = "ClientError" THEN Raised("InterQRConnectionError", "transport")
    ELSE IF resp.transport = "TimeoutError" THEN Raised("TimeoutError", "transport")
    ELSE IF ~HasJsonContentType(resp.ctype)
    THEN Raised("InterQRConnectionError", "content_type")
    ELSE IF ReadBody(resp.size) > MAX_RESPONSE_BYTES
    THEN Raised("InterQRConnectionError", "size")
    ELSE IF ~resp.json_ok THEN Raised("InterQRConnectionError", "json")
    ELSE IF resp.status = 401 THEN Raised("InterQRAuthError", "status")
    ELSE IF resp.status >= 400 THEN Raised("InterQRConnectionError", "status")
    ELSE [kind |-> "data", data |-> resp.body]

Wire(endpoint, authenticated, tok) ==
    [endpoint |-> endpoint, authorization |-> RequestAuthorization(authenticated, tok)]

(***************************************************************************)
(* Config entries as the other state machines leave them.                  *)
(***************************************************************************)
EntryIds == {"e1", "e2"}

\* coordinator.data before the first successful refresh (None): a mapping
\* without keys
NoData == [k \in {} |-> None]

EntryIdle ==
    /\ entry_state = [e \in EntryIds |-> "not_loaded"]
    /\ api_token = [e \in EntryIds |-> None]
    /\ hass_data = [present |-> FALSE, records |-> {}]
    /\ coord_data = [e \in EntryIds |-> NoData]
    /\ update = [e \in EntryIds |-> "none"]
    /\ reauth = {}

\* InterQRConfigFlow.__init__, with no step run yet
NoFlow ==
    [source |-> "none", step |-> "none", result |-> "none", reason |-> "none",
     entry_id |-> 0, base_url |-> DEFAULT_BASE_URL, phone |-> <<>>,
     device_uuid |-> "", second_auth_token |-> None,
     api |-> [token |-> None, device_uuid |-> None],
     attempts |-> 0, unique_id |-> None]

FlowIdle ==
    /\ flow = NoFlow
    /\ flow_log = <<>>
    /\ entries = {}
    /\ flows = 0

(***************************************************************************)
(* lock.py: InterQRLock.                                                   *)
(***************************************************************************)
\* service calls suspended at the await of their API call
Suspended == pc["async_unlock"] + pc["async_open"]

LockUuids == { <<"a", "b", "-", "1">>, <<"a", "/", "b">>, <<"a", "b", "\n">> }

UnlockBodies == { [has_data |-> FALSE] }

\* what a handler saw when it was entered
Entered(op) ==
    [op |-> op, api |-> "none", out |-> "none",
     h0 |-> next_handle, n0 |-> Len(sent), t0 |-> timers # {}, l0 |-> attr_is_locked]

\* the cancel function async_call_later returned for handle h
CancelTimer(ts, h) == {t \in ts : t.id # h}

async_relock_no_state ==
    /\ cancel_relock' = NoHandle
    /\ UNCHANGED attr_is_locked

\* _async_relock: the timer callback
async_relock ==
    /\ cancel_relock' = NoHandle
    /\ attr_is_locked' = TRUE

schedule_auto_relock_stacking ==
    /\ timers' = timers \cup {[id |-> next_handle, left |-> RELOCK_DELAY]}
    /\ cancel_relock' = next_handle
    /\ next_handle' = next_handle + 1

\* _schedule_auto_relock
schedule_auto_relock ==
    /\ timers' = (IF cancel_relock # NoHandle THEN CancelTimer(timers, cancel_relock)
                  ELSE timers)
                 \cup {[id |-> next_handle, left |-> RELOCK_DELAY]}
    /\ cancel_relock' = next_handle
    /\ next_handle' = next_handle + 1

\* async_unlock / async_open up to the await of the API call: the identifier
\* is validated and the request handed to the session, or ValueError is
\* raised at once and handled by the except/finally clauses.
UnlockCall(op, endpoint) ==
    /\ Suspended < MaxCallers
    /\ issued < MaxUnlockCalls
    /\ issued' = issued + 1
    /\ IF validate_uuid(lock_uuid)
       THEN /\ attr_is_unlocking' = TRUE
            /\ sent' = Append(sent, Wire(<<endpoint, lock_uuid>>, TRUE, token))
            /\ pc' = [pc EXCEPT ![op] = @ + 1]
            /\ last' = [Entered(op) EXCEPT !.out = "awaiting"]
            /\ UNCHANGED attr_is_locked
       ELSE /\ attr_is_locked' = TRUE
            /\ attr_is_unlocking' = FALSE
            /\ last' = [Entered(op) EXCEPT !.api = "ValueError", !.out = "ValueError"]
            /\ UNCHANGED <<sent, pc>>
    /\ UNCHANGED <<cancel_relock, timers, next_handle, allow_long_unlock, lock_uuid, token,
                   api_device_uuid>>
    /\ UNCHANGED notLock

\* every way the awaited unlock request can end
UnlockOutcomes == {request(resp) : resp \in Responses(UnlockBodies)}

UnlockResume_no_except(op, r) ==
    /\ pc[op] > 0
    /\ pc' = [pc EXCEPT ![op] = @ - 1]
    /\ IF r.kind = "data"
       THEN /\ attr_is_locked' = FALSE
            /\ attr_is_unlocking' = FALSE
            /\ schedule_auto_relock
            /\ last' = [Entered(op) EXCEPT !.api = r.kind, !.out = "ok"]
       ELSE /\ attr_is_unlocking' = FALSE
            /\ last' = [Entered(op) EXCEPT !.api = r.kind, !.out = r.kind]
            /\ UNCHANGED <<attr_is_locked, cancel_relock, timers, next_handle>>
    /\ UNCHANGED <<issued, allow_long_unlock, lock_uuid, apiVars>>
    /\ UNCHANGED notLock

\* async_unlock / async_open from the await on, the request having ended as r
UnlockResume(op, r) ==
    /\ pc[op] > 0
    /\ pc' = [pc EXCEPT ![op] = @ - 1]
    /\ IF r.kind = "data"
       THEN /\ attr_is_locked' = FALSE
            /\ attr_is_unlocking' = FALSE
            /\ schedule_auto_relock
            /\ last' = [Entered(op) EXCEPT !.api = r.kind, !.out = "ok"]
       ELSE /\ attr_is_locked' = TRUE
            /\ attr_is_unlocking' = FALSE
            /\ last' = [Entered(op) EXCEPT !.api = r.kind, !.out = r.kind]
            /\ UNCHANGED <<cancel_relock, timers, next_handle>>
    /\ UNCHANGED <<issued, allow_long_unlock, lock_uuid, apiVars>>
    /\ UNCHANGED notLock

async_unlock_call == UnlockCall("async_unlock", "unlock")

async_unlock_resume ==
    \E r \in UnlockOutcomes : UnlockResume("async_unlock", r)

async_open_call ==
    IF ~allow_long_unlock
    THEN /\ last' = [Entered("async_open") EXCEPT !.out = "unsupported"]
         /\ UNCHANGED <<lockVars, apiVars, notLock>>
    ELSE UnlockCall("async_open", "unlock-long")

async_open_resume ==
    \E r \in UnlockOutcomes : UnlockResume("async_open", r)

async_lock_no_cancel ==
    /\ cancel_relock' = NoHandle
    /\ attr_is_locked' = TRUE
    /\ last' = [Entered("async_lock") EXCEPT !.out = "ok"]
    /\ UNCHANGED <<timers, attr_is_unlocking, allow_long_unlock, lock_uuid, next_handle,
                   pc, issued, apiVars, notLock>>

async_lock ==
    /\ IF cancel_relock # NoHandle
       THEN /\ timers' = CancelTimer(timers, cancel_relock)
            /\ cancel_relock' = NoHandle
       ELSE UNCHANGED <<timers, cancel_relock>>
    /\ attr_is_locked' = TRUE
    /\ last' = [Entered("async_lock") EXCEPT !.out = "ok"]
    /\ UNCHANGED <<attr_is_unlocking, allow_long_unlock, lock_uuid, next_handle, pc,
                   issued, apiVars, notLock>>

\* one second passes; a due timer fires before the clock moves on
Tick ==
    /\ timers # {}
    /\ \A t \in timers : t.left > 0
    /\ timers' = {[id |-> t.id, left |-> t.left - 1] : t \in timers}
    /\ last' = Entered("tick")
    /\ UNCHANGED <<attr_is_locked, attr_is_unlocking, cancel_relock, allow_long_unlock,
                   lock_uuid, next_handle, pc, issued, apiVars, notLock>>

\* the event loop runs a due timer's callback
TimerFire ==
    \E t \in timers :
        /\ t.left = 0
        /\ timers' = timers \ {t}
        /\ async_relock
        /\ last' = Entered("async_relock")
        /\ UNCHANGED <<attr_is_unlocking, allow_long_unlock, lock_uuid, next_handle, pc,
                       issued, apiVars, notLock>>

InitLock ==
    /\ attr_is_locked = TRUE
    /\ attr_is_unlocking = FALSE
    /\ cancel_relock = NoHandle
    /\ allow_long_unlock \in BOOLEAN
    /\ lock_uuid \in LockUuids
    /\ timers = {}
    /\ next_handle = 1
    /\ pc = [op \in {"async_unlock", "async_open"} |-> 0]
    /\ issued = 0
    /\ token \in {None, "tokA"}
    /\ api_device_uuid = None
    /\ sent = <<>>
    /\ last = [op |-> "init", api |-> "none", out |-> "none", h0 |-> 1, n0 |-> 0,
               t0 |-> FALSE, l0 |-> TRUE]
    /\ EntryIdle
    /\ FlowIdle

NextLock ==
    \/ async_unlock_call
    \/ async_unlock_resume
    \/ async_open_call
    \/ async_open_resume
    \/ async_lock
    \/ Tick
    \/ TimerFire

SpecLock == InitLock /\ [][NextLock]_vars

\* the event loop's clock advances and due timers are run
SpecLockLive == SpecLock /\ WF_vars(Tick) /\ WF_vars(TimerFire)

(***************************************************************************)
(* config_flow.py: input validation.                                       *)
(***************************************************************************)
Digits == {"0", "1", "2", "3", "4", "5", "6", "7", "8", "9"}
Whitespace == {" ", "\t", "\n"}

RECURSIVE LStrip(_)
LStrip(str) ==
    IF str # <<>> /\ Head(str) \in Whitespace THEN LStrip(Tail(str)) ELSE str

RECURSIVE RStrip(_)
RStrip(str) ==
    IF str # <<>> /\ str[Len(str)] \in Whitespace
    THEN RStrip(SubSeq(str, 1, Len(str) - 1)) ELSE str

\* str.strip()
Strip(str) == RStrip(LStrip(str))

\* PHONE_PATTERN ^\+[1-9]\d{6,14}$ on a stripped string
validate_phone(phone) ==
    /\ Len(phone) \in 8..16
    /\ phone[1] = "+"
    /\ phone[2] \in Digits \ {"0"}
    /\ \A i \in 3..Len(phone) : phone[i] \in Digits

\* VERIFICATION_CODE_PATTERN ^\d{4,8}$ on a stripped string
validate_code(code) ==
    /\ Len(code) \in 4..8
    /\ \A i \in 1..Len(code) : code[i] \in Digits

\* custom URLs a user may type, as urlparse and ipaddress see them
CustomUrls ==
    { [text |-> "", scheme |-> "", hostname |-> "", private |-> FALSE,
       stripped |-> ""],
      [text |-> "http://interqr.example/api", scheme |-> "http",
       hostname |-> "interqr.example", private |-> FALSE,
       stripped |-> "http://interqr.example/api"],
      [text |-> "https:///api", scheme |-> "https", hostname |-> "", private |-> FALSE,
       stripped |-> "https:///api"],
      [text |-> "https://192.168.1.10/api", scheme |-> "https",
       hostname |-> "192.168.1.10", private |-> TRUE,
       stripped |-> "https://192.168.1.10/api"],
      [text |-> "https://interqr.example/api/", scheme |-> "https",
       hostname |-> "interqr.example", private |-> FALSE,
       stripped |-> "https://interqr.example/api"] }

\* _validate_custom_url: the error key, or None
validate_custom_url(url) ==
    IF url.scheme # "https" THEN "https_required"
    ELSE IF url.hostname = "" THEN "invalid_url"
    ELSE IF url.private THEN "private_url_blocked"
    ELSE None

\* phone numbers typed into the user form, and into the reauth form (which
\* is pre-filled with the entry's number)
UserPhones ==
    { <<"+", "1", "2", "3", "4", "5", "6", "7">>,
      <<"+", "4", "4", "7", "7", "0", "0", "9", "0", "0", " ">>,
      <<"0", "1", "2", "3", "4", "5", "6", "7">> }
Phones ==
    UserPhones \cup { <<"+", "0", "2", "3", "4", "5", "6", "7">>,
                      <<"+", "1", "2", "3", "4", "5", "6">> }

Codes ==
    { <<"1", "2", "3", "4">>, <<" ", "9", "8", "7", "6", "5", " ">>, <<"1", "2">>,
      <<"1", "2", "3", "4", "5", "6", "7", "8", "9">>, <<"1", "2", "3", "a">> }

DeviceUuids == {"dev1", "dev2", "dev3", "dev4"}
\* the user form: custom_url keeps its default "" unless the server is "custom"
UserInputs ==
    {inp \in [server : {"production", "custom"}, phone : UserPhones,
              custom_url : CustomUrls] :
        inp.server # "custom" => inp.custom_url.text = ""}

(***************************************************************************)
(* api.py: the authentication calls, on a client [token, device_uuid],     *)
(* the request having ended as r.                                          *)
(***************************************************************************)
NewClient == [token |-> None, device_uuid |-> None]

\* response bodies: no "data" object, or one with the fields the client reads
InitBodies ==
    {[has_data |-> FALSE, device_uuid |-> None]}
    \cup [has_data : {TRUE}, device_uuid : {None, "devS"}]
StartBodies == {[has_data |-> TRUE, second_auth_token |-> "sat1"]}
TokenBodies ==
    {[has_data |-> FALSE, token |-> None, uuid |-> None]}
    \cup [has_data : {TRUE}, token : {None, "", "new"}, uuid : {None, "usr1"}]

InitOutcomes == {request(resp) : resp \in Responses(InitBodies)}
StartOutcomes == {request(resp) : resp \in Responses(StartBodies)}
TokenOutcomes == {request(resp) : resp \in Responses(TokenBodies)}

\* (result.get("data") or {}).get(key)
DataGet(r, key) == IF r.data.has_data THEN r.data[key] ELSE None

\* a call of the flow's client: the request as sent, whether the call
\* returned (ok) or raised, and the token it returned
LogRecord(endpoint, client, number, device_uuid, raised, tok) ==
    [endpoint |-> endpoint,
     authorization |-> RequestAuthorization(FALSE, client.token),
     number |-> number, device_uuid |-> device_uuid, ok |-> raised = "none",
     token |-> tok]

\* init_device(device_uuid), device_uuid not None
init_device(client, device_uuid, r) ==
    LET c1 == [client EXCEPT !.device_uuid = device_uuid]
        resp_uuid == IF r.kind = "data" THEN DataGet(r, "device_uuid") ELSE None
    IN  [raised |-> IF r.kind = "data" THEN "none" ELSE r.kind,
         client |-> IF Truthy(resp_uuid) THEN [c1 EXCEPT !.device_uuid = resp_uuid] ELSE c1,
         log |-> <<LogRecord("init", client, <<>>, device_uuid,
                             IF r.kind = "data" THEN "none" ELSE r.kind, None)>>]

\* start_2fa(phone_number, device_uuid)
start_2fa(client, phone_number, device_uuid, r) ==
    [raised |-> IF r.kind = "data" THEN "none" ELSE r.kind,
     second_auth_token |-> IF r.kind = "data" THEN DataGet(r, "second_auth_token") ELSE None,
     log |-> <<LogRecord("twofa/start", client, phone_number, device_uuid,
                         IF r.kind = "data" THEN "none" ELSE r.kind, None)>>]

\* verify_2fa(phone_number, code, device_uuid, second_auth_token)
verify_2fa(client, phone_number, device_uuid, r) ==
    LET tok == IF r.kind = "data" THEN DataGet(r, "token") ELSE None
        raised == IF r.kind # "data" THEN r.kind
                  ELSE IF Truthy(tok) THEN "none" ELSE "InterQRAuthError"
    IN  [raised |-> raised,
         client |-> IF raised = "none" THEN [client EXCEPT !.token = tok] ELSE client,
         token |-> IF raised = "none" THEN tok ELSE None,
         uuid |-> IF raised = "none" /\ DataGet(r, "uuid") # None
                  THEN DataGet(r, "uuid") ELSE "",
         log |-> <<LogRecord("twofa/verify", client, phone_number, device_uuid, raised,
                             IF raised = "none" THEN tok ELSE None)>>]

login_no_precondition(client, device_uuid, r) ==
    LET uuid_to_use == IF Truthy(device_uuid) THEN device_uuid ELSE client.device_uuid
        tok == IF r.kind = "data" THEN DataGet(r, "token") ELSE None
    IN  [raised |-> IF r.kind = "data" THEN "none" ELSE r.kind,
         client |-> IF Truthy(tok) THEN [client EXCEPT !.token = tok] ELSE client,
         token |-> tok,
         log |-> <<LogRecord("login", client, <<>>, uuid_to_use,
                             IF r.kind = "data" THEN "none" ELSE r.kind, tok)>>]

\* login(device_uuid)
login(client, device_uuid, r) ==
    LET uuid_to_use == IF Truthy(device_uuid) THEN device_uuid ELSE client.device_uuid
        tok == IF r.kind = "data" THEN DataGet(r, "token") ELSE None
    IN  IF ~Truthy(uuid_to_use)
        THEN [raised |-> "InterQRAuthError", client |-> client, token |-> None, log |-> <<>>]
        ELSE [raised |-> IF r.kind = "data" THEN "none" ELSE r.kind,
              client |-> IF Truthy(tok) THEN [client EXCEPT !.token = tok] ELSE client,
              token |-> tok,
              log |-> <<LogRecord("login", client, <<>>, uuid_to_use,
                                  IF r.kind = "data" THEN "none" ELSE r.kind, tok)>>]


(***************************************************************************)
(* Properties of the lock entity.                                          *)
(***************************************************************************)
UnlockOps == {"async_unlock", "async_open"}
UnlockErrors == {"InterQRAuthError", "InterQRConnectionError", "TimeoutError", "ValueError"}
RelockTimerPending == \E t \in timers : t.id = cancel_relock

\* C1: an entity that reports unlocked (which only a successful async_unlock
\* or permitted async_open brings about) has the relock timer of that unlock
\* pending, and unless a further unlock command is issued it eventually
\* reports locked again.
C1_AutoStatusReset ==
    /\ [](~attr_is_locked => RelockTimerPending)
    /\ \A n \in 0..MaxUnlockCalls :
          (~attr_is_locked /\ issued = n) ~> (attr_is_locked \/ issued # n)

\* the relock timer fired on an unlocked entity and locked it
C1_Witness ==
    /\ last.op = "async_relock"
    /\ ~last.l0
    /\ attr_is_locked

\* C2: async_lock sends no request; when it returns the entity reports
\* locked and no relock timer is pending.
C2_LockIsLocal ==
    last.op = "async_lock" =>
        /\ attr_is_locked
        /\ timers = {}
        /\ cancel_relock = NoHandle
        /\ Len(sent) = last.n0

\* async_lock ran on an unlocked entity whose relock timer was pending
C2_Witness ==
    /\ last.op = "async_lock"
    /\ last.t0
    /\ ~last.l0
    /\ attr_is_locked

\* C3: when the API call of async_unlock/async_open succeeds the entity
\* reports unlocked and a relock timer of RELOCK_DELAY is scheduled; when it
\* raises, the entity reports locked, the same exception leaves the handler
\* and no timer is scheduled by the call; is_unlocking is false either way.
C3_UnlockOutcome ==
    (last.op \in UnlockOps /\ last.out \notin {"awaiting", "unsupported"}) =>
        /\ ~attr_is_unlocking
        /\ last.out = (IF last.api = "data" THEN "ok" ELSE last.api)
        /\ last.api = "data" =>
              /\ ~attr_is_locked
              /\ next_handle = last.h0 + 1
              /\ cancel_relock = last.h0
              /\ [id |-> last.h0, left |-> RELOCK_DELAY] \in timers
        /\ last.api \in UnlockErrors =>
              /\ attr_is_locked
              /\ next_handle = last.h0
        /\ last.api \in UnlockErrors \cup {"data"}

\* an unlock failed on an entity a concurrent unlock had unlocked
C3_Witness ==
    /\ last.op \in UnlockOps
    /\ last.api \in UnlockErrors
    /\ ~last.l0
    /\ last.t0
    /\ attr_is_locked

\* an unlock succeeded
C3_WitnessOk ==
    /\ last.op \in UnlockOps
    /\ last.api = "data"
    /\ ~attr_is_locked

\* C10: at most one relock timer is pending at any time, and it is the one
\* _cancel_relock refers to.
C10_SingleTimer ==
    /\ Cardinality(timers) <= 1
    /\ \A t \in timers : t.id = cancel_relock

\* a timer was scheduled while an earlier one was still pending
C10_Witness ==
    /\ last.op \in UnlockOps
    /\ last.api = "data"
    /\ last.t0
    /\ Cardinality(timers) = 1

(***************************************************************************)
(* api.py: logout and get_user_details; coordinator.py; __init__.py.       *)
(***************************************************************************)
\* the token stored in each config entry's data (CONF_TOKEN)
EntryToken == [e \in EntryIds |-> IF e = "e1" THEN "tokA" ELSE "tokB"]

\* /resource/user/details bodies: "data" present or not; in it the key
\* "locks" present or not, its value a list or null; and the user's name
DetailsBodies ==
    {b \in [has_data : BOOLEAN, has_locks : BOOLEAN, null_locks : BOOLEAN,
            locks : {<<>>, <<"lockA">>}, name : {"Alice"}] :
        b.null_locks => (b.has_locks /\ b.locks = <<>>)}

LogoutBodies == { [has_data |-> FALSE] }

\* an exchange as the handler's caller can observe it: what the server
\* answered and what _request made of it
Exchanges(bodies) ==
    {[transport |-> resp.transport, status |-> resp.status, ctype |-> resp.ctype,
      r |-> request(resp)] : resp \in Responses(bodies)}

DetailsExchanges == Exchanges(DetailsBodies)
LogoutExchanges == Exchanges(LogoutBodies)

logout_keeps_token_on_error(tok, r) ==
    IF ~Truthy(tok)
    THEN [sent |-> <<>>, token |-> tok, raised |-> "none"]
    ELSE [sent |-> <<Wire("logout", TRUE, tok)>>,
          token |-> IF r.kind = "data" THEN None ELSE tok,
          raised |-> IF r.kind \in {"data", "InterQRAuthError", "InterQRConnectionError"}
                     THEN "none" ELSE r.kind]

\* InterQRApiClient.logout on a client holding tok, the request (if one is
\* sent) ending as r: the requests sent, the token left, the exception raised
logout(tok, r) ==
    IF ~Truthy(tok)
    THEN [sent |-> <<>>, token |-> tok, raised |-> "none"]
    ELSE [sent |-> <<Wire("logout", TRUE, tok)>>,
          token |-> None,
          raised |-> IF r.kind \in {"data", "InterQRAuthError", "InterQRConnectionError"}
                     THEN "none" ELSE r.kind]

async_update_data_passthrough(r) ==
    IF r.kind = "InterQRAuthError" THEN [kind |-> "ConfigEntryAuthFailed"]
    ELSE IF r.kind = "InterQRConnectionError" THEN [kind |-> "UpdateFailed"]
    ELSE IF r.kind # "data" THEN [kind |-> r.kind]
    ELSE IF ~r.data.has_data THEN [kind |-> "UpdateFailed"]
    ELSE [kind |-> "ok", data |-> r.data]

\* InterQRDataCoordinator._async_update_data, get_user_details ending as r;
\* len(locks) raises TypeError when "locks" is null
async_update_data(r) ==
    IF r.kind = "InterQRAuthError" THEN [kind |-> "ConfigEntryAuthFailed"]
    ELSE IF r.kind = "InterQRConnectionError" THEN [kind |-> "UpdateFailed"]
    ELSE IF r.kind # "data" THEN [kind |-> r.kind]
    ELSE IF ~r.data.has_data THEN [kind |-> "UpdateFailed"]
    ELSE IF r.data.has_locks /\ r.data.null_locks THEN [kind |-> "TypeError"]
    ELSE [kind |-> "ok",
          data |-> [locks |-> IF r.data.has_locks THEN r.data.locks ELSE <<>>]]

EntryEntered(op, e, x) ==
    [op |-> op, e |-> e, transport |-> x.transport, status |-> x.status, api |-> x.r.kind,
     body |-> IF x.r.kind = "data" THEN x.r.data ELSE None,
     out |-> "none", n0 |-> Len(sent), d0 |-> hass_data, tok0 |-> api_token[e],
     c0 |-> coord_data[e]]

\* __init__.async_setup_entry: client, coordinator, first refresh, hass.data
async_setup_entry(e) ==
    /\ entry_state[e] \in {"not_loaded", "setup_retry"}
    /\ Len(sent) < MaxSent
    /\ \E x \in DetailsExchanges :
          LET tok == EntryToken[e]
              u == async_update_data(x.r)
          IN  /\ api_token' = [api_token EXCEPT ![e] = tok]
              /\ sent' = Append(sent, Wire("user_details", TRUE, tok))
              /\ update' = [update EXCEPT ![e] = u.kind]
              /\ last' = [EntryEntered("first_refresh", e, x) EXCEPT !.out = u.kind]
              /\ IF u.kind = "ok"
                 THEN /\ coord_data' = [coord_data EXCEPT ![e] = u.data]
                      /\ hass_data' = [present |-> TRUE,
                                       records |-> hass_data.records \cup {e}]
                      /\ entry_state' = [entry_state EXCEPT ![e] = "loaded"]
                      /\ UNCHANGED reauth
                 ELSE IF u.kind = "ConfigEntryAuthFailed"
                 THEN /\ entry_state' = [entry_state EXCEPT ![e] = "setup_error"]
                      /\ reauth' = reauth \cup {e}
                      /\ UNCHANGED <<coord_data, hass_data>>
                 ELSE /\ entry_state' = [entry_state EXCEPT ![e] = "setup_retry"]
                      /\ UNCHANGED <<coord_data, hass_data, reauth>>
    /\ UNCHANGED notEntry

\* a scheduled refresh of a loaded entry's coordinator
Poll(e) ==
    /\ entry_state[e] = "loaded"
    /\ Len(sent) < MaxSent
    /\ \E x \in DetailsExchanges :
          LET u == async_update_data(x.r)
          IN  /\ sent' = Append(sent, Wire("user_details", TRUE, api_token[e]))
              /\ update' = [update EXCEPT ![e] = u.kind]
              /\ last' = [EntryEntered("poll", e, x) EXCEPT !.out = u.kind]
              /\ coord_data' = IF u.kind = "ok" THEN [coord_data EXCEPT ![e] = u.data]
                               ELSE coord_data
              /\ reauth' = IF u.kind = "ConfigEntryAuthFailed" THEN reauth \cup {e}
                           ELSE reauth
    /\ UNCHANGED <<entry_state, api_token, hass_data, notEntry>>

async_unload_entry_propagating(e) ==
    /\ entry_state[e] = "loaded"
    /\ Len(sent) < MaxSent
    /\ \E unload_ok \in BOOLEAN, x \in LogoutExchanges :
          IF unload_ok
          THEN LET lo == logout(api_token[e], x.r)
                   left == hass_data.records \ {e}
               IN  /\ hass_data' = [present |-> left # {}, records |-> left]
                   /\ sent' = sent \o lo.sent
                   /\ api_token' = [api_token EXCEPT ![e] = lo.token]
                   /\ entry_state' = [entry_state EXCEPT ![e] = "not_loaded"]
                   /\ last' = [EntryEntered("async_unload_entry", e, x) EXCEPT
                                  !.out = IF lo.raised = "none" THEN "True" ELSE lo.raised]
          ELSE /\ last' = [EntryEntered("async_unload_entry", e, x) EXCEPT !.out = "False"]
               /\ UNCHANGED <<hass_data, sent, api_token, entry_state>>
    /\ UNCHANGED <<coord_data, update, reauth, notEntry>>

\* __init__.async_unload_entry
async_unload_entry(e) ==
    /\ entry_state[e] = "loaded"
    /\ Len(sent) < MaxSent
    /\ \E unload_ok \in BOOLEAN, x \in LogoutExchanges :
          IF unload_ok
          THEN LET lo == logout(api_token[e], x.r)
                   left == hass_data.records \ {e}
               IN  /\ hass_data' = [present |-> left # {}, records |-> left]
                   /\ sent' = sent \o lo.sent
                   /\ api_token' = [api_token EXCEPT ![e] = lo.token]
                   /\ entry_state' = [entry_state EXCEPT ![e] = "not_loaded"]
                   /\ last' = [EntryEntered("async_unload_entry", e, x) EXCEPT !.out = "True"]
          ELSE /\ last' = [EntryEntered("async_unload_entry", e, x) EXCEPT !.out = "False"]
               /\ UNCHANGED <<hass_data, sent, api_token, entry_state>>
    /\ UNCHANGED <<coord_data, update, reauth, notEntry>>

LockIdle ==
    /\ attr_is_locked = TRUE
    /\ attr_is_unlocking = FALSE
    /\ cancel_relock = NoHandle
    /\ allow_long_unlock = FALSE
    /\ lock_uuid = <<"a", "b", "-", "1">>
    /\ timers = {}
    /\ next_handle = 1
    /\ pc = [op \in {"async_unlock", "async_open"} |-> 0]
    /\ issued = 0

InitEntry ==
    /\ EntryIdle
    /\ LockIdle
    /\ FlowIdle
    /\ token = None
    /\ api_device_uuid = None
    /\ sent = <<>>
    /\ last = [op |-> "init", e |-> "e1", transport |-> "none", status |-> 0, api |-> "none",
               body |-> None, out |-> "none", n0 |-> 0,
               d0 |-> [present |-> FALSE, records |-> {}], tok0 |-> None, c0 |-> NoData]

NextEntry ==
    \/ \E e \in EntryIds : async_setup_entry(e)
    \/ \E e \in EntryIds : Poll(e)
    \/ \E e \in EntryIds : async_unload_entry(e)

SpecEntry == InitEntry /\ [][NextEntry]_vars

(***************************************************************************)
(* Properties of setup, polling and unload.                                *)
(***************************************************************************)
\* C4: every coordinator refresh (the first one of setup included) whose
\* get_user_details request the server answers with status 401 ends as
\* ConfigEntryAuthFailed and starts re-authentication.
C4_ReauthOn401 ==
    (last.op \in {"first_refresh", "poll"} /\ last.transport = "ok" /\ last.status = 401) =>
        /\ last.out = "ConfigEntryAuthFailed"
        /\ last.e \in reauth

\* C9: with the platforms unloaded, async_unload_entry removes the entry's
\* record from hass.data, calls logout (one authenticated /logout request when
\* the client holds a token, which it then drops) and returns True however
\* the request ended; with the platforms not unloaded it removes nothing,
\* sends nothing and returns False.
C9_UnloadBestEffort ==
    last.op = "async_unload_entry" =>
        /\ last.out \in {"True", "False"}
        /\ last.out = "True" =>
              /\ last.e \notin hass_data.records
              /\ hass_data.records = last.d0.records \ {last.e}
              /\ hass_data.present = (hass_data.records # {})
              /\ ~Truthy(api_token[last.e])
              /\ IF Truthy(last.tok0)
                 THEN /\ Len(sent) = last.n0 + 1
                      /\ sent[Len(sent)] = Wire("logout", TRUE, last.tok0)
                 ELSE Len(sent) = last.n0
        /\ last.out = "False" =>
              /\ hass_data = last.d0
              /\ Len(sent) = last.n0
              /\ api_token[last.e] = last.tok0

\* unload succeeded although the logout request timed out
C9_Witness ==
    /\ last.op = "async_unload_entry"
    /\ last.out = "True"
    /\ last.api = "TimeoutError"
    /\ Truthy(last.tok0)
    /\ last.d0.records = EntryIds

\* the platforms failed to unload
C9_WitnessFalse ==
    /\ last.op = "async_unload_entry"
    /\ last.out = "False"
    /\ last.e \in hass_data.records

(***************************************************************************)
(* config_flow.py: InterQRConfigFlow.  Each handler runs to the form,      *)
(* abort, entry or exception that ends it.                                 *)
(***************************************************************************)
\* async_show_form(step_id, errors)
ShowForm(f, step_id, error) ==
    [f EXCEPT !.step = step_id, !.result = "form", !.reason = error]

\* async_abort(reason) and AbortFlow(reason)
Abort(f, reason) ==
    [f EXCEPT !.step = "done", !.result = "abort", !.reason = reason]

\* an exception the handler does not catch leaves it; the flow stays at its step
Raise(f, kind) ==
    [f EXCEPT !.result = "error", !.reason = kind]

EntryIdsOf(es) == {e.entry_id : e \in es}

\* what the handler saw on entry, and (filled in by the handler) how its
\* decisive API call ended
FlowEntered(op) ==
    [op |-> op, api |-> "none", token |-> None, valid |-> TRUE,
     attempts0 |-> flow.attempts, log0 |-> 0, ids0 |-> EntryIdsOf(entries),
     old_token |-> None, old_uuid |-> None, gone |-> FALSE]

\* str(uuid_mod.uuid4()): an identifier no entry and no flow has used
uuid4 ==
    CHOOSE d \in DeviceUuids :
        d # flow.device_uuid /\ \A e \in entries : d # e.data.device_uuid

\* the server issues a token it has not issued before
FreshToken ==
    CHOOSE t \in Tokens : t # flow.api.token /\ \A e \in entries : t # e.data.token

Issue(r) ==
    IF r.kind = "data" /\ r.data.token = "new" THEN [r EXCEPT !.data.token = FreshToken]
    ELSE r

\* SERVER_URLS[server]
ServerUrl(server) == IF server = "production" THEN DEFAULT_BASE_URL ELSE DEV_BASE_URL

\* the error key an API exception maps to in async_step_user / _reauth_confirm
StepError(raised, auth_key) ==
    IF raised = "InterQRConnectionError" THEN "cannot_connect" ELSE auth_key

\* init_device then start_2fa, as async_step_user and async_step_reauth_confirm
\* run them: the flow after the two calls, and the calls made.
\* capture: whether second_auth_token is taken from the start_2fa response.
StartTwoFa(f, form, capture, ri, rs) ==
    LET i == init_device(f.api, f.device_uuid, ri)
        f1 == [f EXCEPT !.api = i.client]
        st == start_2fa(f1.api, f1.phone, f1.device_uuid, rs)
    IN  IF i.raised = "TimeoutError"
        THEN [flow |-> Raise(f1, i.raised), log |-> i.log]
        ELSE IF i.raised # "none"
        THEN [flow |-> ShowForm(f1, form,
                         StepError(i.raised,
                                   IF capture THEN "init_failed" ELSE "twofa_failed")),
              log |-> i.log]
        ELSE IF st.raised = "TimeoutError"
        THEN [flow |-> Raise(f1, st.raised), log |-> i.log \o st.log]
        ELSE IF st.raised # "none"
        THEN [flow |-> ShowForm(f1, form, StepError(st.raised, "twofa_failed")),
              log |-> i.log \o st.log]
        ELSE [flow |-> ShowForm([f1 EXCEPT !.second_auth_token =
                                     IF capture THEN st.second_auth_token ELSE @,
                                   !.attempts = 0],
                                "verify", "none"),
              log |-> i.log \o st.log]

\* async_step_user(user_input): the flow it leaves and the calls it made
async_step_user(inp, ri, rs) ==
    LET url_error == IF inp.server # "custom" THEN None
                     ELSE IF inp.custom_url.text = "" THEN "cannot_connect"
                     ELSE validate_custom_url(inp.custom_url)
        base_url == IF inp.server # "custom" THEN ServerUrl(inp.server)
                    ELSE IF url_error = None THEN inp.custom_url.stripped
                    ELSE flow.base_url
        f1 == [flow EXCEPT !.base_url = base_url, !.phone = Strip(inp.phone)]
        f2 == [f1 EXCEPT !.device_uuid = uuid4, !.api = NewClient]
    IN  IF url_error # None
        THEN [flow |-> ShowForm(f1, "user", url_error), log |-> <<>>]
        ELSE IF ~validate_phone(f1.phone)
        THEN [flow |-> ShowForm(f1, "user", "invalid_phone"), log |-> <<>>]
        ELSE StartTwoFa(f2, "user", TRUE, ri, rs)

\* async_step_reauth_confirm(user_input)
async_step_reauth_confirm(phone_input, ri, rs) ==
    LET f1 == [flow EXCEPT !.phone = Strip(phone_input)]
        f2 == [f1 EXCEPT !.device_uuid = uuid4]
    IN  IF ~validate_phone(f1.phone)
        THEN [flow |-> ShowForm(f1, "reauth_confirm", "invalid_phone"), log |-> <<>>]
        ELSE StartTwoFa(f2, "reauth_confirm", FALSE, ri, rs)

AttemptsExceeded_off_by_one(attempts) == attempts > MAX_2FA_ATTEMPTS + 1

\* self._2fa_attempts > MAX_2FA_ATTEMPTS
AttemptsExceeded(attempts) == attempts > MAX_2FA_ATTEMPTS

EntryData_api_uuid(f, tok, user_uuid) ==
    [base_url |-> f.base_url, token |-> tok, device_uuid |-> f.api.device_uuid,
     user_uuid |-> user_uuid, phone |-> f.phone]

\* the data of the entry async_step_verify creates
EntryData(f, tok, user_uuid) ==
    [base_url |-> f.base_url, token |-> tok, device_uuid |-> f.device_uuid,
     user_uuid |-> user_uuid, phone |-> f.phone]

\* the entry_id of a new config entry: one no entry has
NewEntryId == CHOOSE n \in 1..(Cardinality(entries) + 1) : n \notin EntryIdsOf(entries)

\* async_set_unique_id, _abort_if_unique_id_configured, async_create_entry
CreateEntry(f, tok, user_uuid) ==
    IF \E e \in entries : e.unique_id = user_uuid
    THEN [flow |-> Abort([f EXCEPT !.unique_id = user_uuid], "already_configured"),
          entries |-> entries]
    ELSE [flow |-> [f EXCEPT !.unique_id = user_uuid, !.step = "done",
                             !.result = "create_entry", !.reason = "none"],
          entries |-> entries \cup {[entry_id |-> NewEntryId, unique_id |-> user_uuid,
                                     data |-> EntryData(f, tok, user_uuid)]}]

\* async_step_verify(user_input): the flow and entries it leaves, the calls
\* it made, and how verify_2fa ended
async_step_verify(code_input, rv) ==
    LET f1 == [flow EXCEPT !.attempts = @ + 1]
        code == Strip(code_input)
        v == verify_2fa(f1.api, f1.phone, f1.device_uuid, Issue(rv))
        f2 == [f1 EXCEPT !.api = v.client]
        made == CreateEntry(f2, v.token, v.uuid)
        here == FlowEntered("async_step_verify")
    IN  IF AttemptsExceeded(f1.attempts)
        THEN [flow |-> Abort(f1, "too_many_attempts"), log |-> <<>>, entries |-> entries,
              last |-> here]
        ELSE IF ~validate_code(code)
        THEN [flow |-> ShowForm(f1, "verify", "invalid_code"), log |-> <<>>,
              entries |-> entries, last |-> [here EXCEPT !.valid = FALSE]]
        ELSE IF v.raised = "none"
        THEN [flow |-> made.flow, log |-> v.log, entries |-> made.entries,
              last |-> [here EXCEPT !.api = "ok", !.token = v.token]]
        ELSE [flow |-> IF v.raised = "InterQRAuthError"
                       THEN ShowForm(f2, "verify", "invalid_auth")
                       ELSE IF v.raised = "InterQRConnectionError"
                       THEN ShowForm(f2, "verify", "cannot_connect")
                       ELSE Raise(f2, v.raised),
              log |-> v.log, entries |-> entries,
              last |-> [here EXCEPT !.api = v.raised]]

UpdateEntryToken_noop(es, entry_id, tok) == es

\* hass.config_entries.async_update_entry(entry, data={**entry.data, CONF_TOKEN: token})
UpdateEntryToken(es, entry_id, tok) ==
    {IF e.entry_id = entry_id THEN [e EXCEPT !.data.token = tok] ELSE e : e \in es}

\* async_step_reauth(entry.data) of a reauth flow for entry e.  gone: the
\* entry is removed while the login request is awaited.
async_step_reauth(e, gone, rl) ==
    LET f0 == [NoFlow EXCEPT !.source = "reauth", !.entry_id = e.entry_id,
                             !.base_url = e.data.base_url,
                             !.device_uuid = e.data.device_uuid,
                             !.phone = e.data.phone]
        l == login(f0.api, f0.device_uuid, Issue(rl))
        f1 == [f0 EXCEPT !.api = l.client]
        now == IF gone THEN entries \ {e} ELSE entries
        here == [FlowEntered("async_step_reauth") EXCEPT
                    !.api = IF l.raised = "none" THEN "ok" ELSE l.raised,
                    !.token = l.token, !.old_token = e.data.token,
                    !.old_uuid = e.data.device_uuid, !.gone = gone,
                    !.attempts0 = 0]
    IN  IF l.raised = "none" /\ Truthy(l.token)
        THEN [flow |-> Abort(f1, "reauth_successful"), log |-> l.log,
              entries |-> UpdateEntryToken(now, e.entry_id, l.token), last |-> here]
        ELSE IF l.raised \in {"none", "InterQRAuthError", "InterQRConnectionError"}
        THEN [flow |-> ShowForm(f1, "reauth_confirm", "none"), log |-> l.log,
              entries |-> now, last |-> here]
        ELSE [flow |-> [Raise(f1, l.raised) EXCEPT !.step = "done"], log |-> l.log,
              entries |-> now, last |-> here]

(***************************************************************************)
(* The flow manager: it starts flows and hands each submitted form to the  *)
(* handler of the step the flow is at.                                     *)
(***************************************************************************)
\* a user starts a flow; async_step_user(None) shows the user form
FlowInitUser ==
    /\ flow.step \in {"none", "done"}
    /\ flows < MaxFlows
    /\ flows' = flows + 1
    /\ flow' = ShowForm([NoFlow EXCEPT !.source = "user"], "user", "none")
    /\ flow_log' = <<>>
    /\ last' = [FlowEntered("flow_init_user") EXCEPT !.attempts0 = 0]
    /\ UNCHANGED <<entries, notFlow>>

\* a reauth flow is started for one of the entries
FlowInitReauth ==
    /\ flow.step \in {"none", "done"}
    /\ flows < MaxFlows
    /\ flows' = flows + 1
    /\ \E out \in {async_step_reauth(e, gone, rl) :
                      e \in entries, gone \in BOOLEAN, rl \in TokenOutcomes} :
          /\ flow' = out.flow
          /\ flow_log' = out.log
          /\ entries' = out.entries
          /\ last' = out.last
    /\ UNCHANGED notFlow

StepUser ==
    /\ flow.step = "user"
    /\ \E out \in {async_step_user(inp, ri, rs) :
                      inp \in UserInputs, ri \in InitOutcomes, rs \in StartOutcomes} :
          /\ flow' = out.flow
          /\ flow_log' = out.log
    /\ last' = FlowEntered("async_step_user")
    /\ UNCHANGED <<entries, flows, notFlow>>

StepReauthConfirm ==
    /\ flow.step = "reauth_confirm"
    /\ \E out \in {async_step_reauth_confirm(phone, ri, rs) :
                      phone \in Phones, ri \in InitOutcomes, rs \in StartOutcomes} :
          /\ flow' = out.flow
          /\ flow_log' = out.log
    /\ last' = FlowEntered("async_step_reauth_confirm")
    /\ UNCHANGED <<entries, flows, notFlow>>

StepVerify ==
    /\ flow.step = "verify"
    /\ \E out \in {async_step_verify(code, rv) : code \in Codes, rv \in TokenOutcomes} :
          /\ flow' = out.flow
          /\ flow_log' = flow_log \o out.log
          /\ entries' = out.entries
          /\ last' = [out.last EXCEPT !.log0 = Len(flow_log)]
    /\ UNCHANGED <<flows, notFlow>>

\* the entries Home Assistant has stored when it starts: none, one, or two
\* of different accounts (the second of an account without a uuid)
StoredEntries ==
    { {},
      {[entry_id |-> 1, unique_id |-> "usr1",
        data |-> [base_url |-> DEFAULT_BASE_URL, token |-> "tokA",
                  device_uuid |-> "dev1", user_uuid |-> "usr1",
                  phone |-> <<"+", "1", "2", "3", "4", "5", "6", "7">>]]},
      {[entry_id |-> 1, unique_id |-> "usr1",
        data |-> [base_url |-> DEFAULT_BASE_URL, token |-> "tokA",
                  device_uuid |-> "dev1", user_uuid |-> "usr1",
                  phone |-> <<"+", "1", "2", "3", "4", "5", "6", "7">>]],
       [entry_id |-> 2, unique_id |-> "",
        data |-> [base_url |-> "https://interqr.example/api", token |-> "tokB",
                  device_uuid |-> "dev2", user_uuid |-> "",
                  phone |-> <<"+", "4", "4", "7", "7", "0", "0", "9", "0", "0">>]]} }

InitFlow ==
    /\ flow = NoFlow
    /\ flow_log = <<>>
    /\ entries \in StoredEntries
    /\ flows = 0
    /\ EntryIdle
    /\ LockIdle
    /\ token = None
    /\ api_device_uuid = None
    /\ sent = <<>>
    /\ last = [op |-> "init", api |-> "none", token |-> None, valid |-> TRUE,
               attempts0 |-> 0, log0 |-> 0, ids0 |-> EntryIdsOf(entries),
               old_token |-> None, old_uuid |-> None, gone |-> FALSE]

NextFlow ==
    \/ FlowInitUser
    \/ FlowInitReauth
    \/ StepUser
    \/ StepReauthConfirm
    \/ StepVerify

SpecFlow == InitFlow /\ [][NextFlow]_vars

(***************************************************************************)
(* Properties of the config flow.                                          *)
(***************************************************************************)
\* the calls of the flow's client to one endpoint, as positions of flow_log
CallsTo(endpoint) == {i \in 1..Len(flow_log) : flow_log[i].endpoint = endpoint}

TwoFaEndpoints == {"init", "twofa/start", "twofa/verify"}

\* C5: async_step_reauth makes exactly one API call, login with the entry's
\* stored device_uuid, before any 2FA step; when the login response carries
\* a non-empty token the flow aborts with reauth_successful, no init_device,
\* start_2fa or verify_2fa call was made in the flow, and the entry of the
\* flow (if it still exists) holds that token, no entry added or removed.
C5_QuickRelogin ==
    /\ last.op = "async_step_reauth" =>
          /\ Len(flow_log) = 1
          /\ flow_log[1].endpoint = "login"
          /\ flow_log[1].device_uuid = last.old_uuid
          /\ (last.api = "ok" /\ Truthy(last.token)) =>
                /\ flow.step = "done"
                /\ flow.result = "abort"
                /\ flow.reason = "reauth_successful"
                /\ ~last.gone =>
                      /\ EntryIdsOf(entries) = last.ids0
                      /\ \E e \in entries :
                            /\ e.entry_id = flow.entry_id
                            /\ e.data.token = last.token
                            /\ e.data.device_uuid = last.old_uuid
    /\ flow.reason = "reauth_successful" =>
          /\ last.op = "async_step_reauth"
          /\ \A i \in 1..Len(flow_log) : flow_log[i].endpoint \notin TwoFaEndpoints

\* quick re-login replaced the token of an entry that still exists
C5_Witness ==
    /\ last.op = "async_step_reauth"
    /\ last.api = "ok"
    /\ Truthy(last.token)
    /\ ~last.gone
    /\ last.old_token # last.token
    /\ flow.reason = "reauth_successful"
    /\ \E e \in entries : e.entry_id = flow.entry_id /\ e.data.token = last.token

\* C6: when quick re-login fails (InterQRAuthError, InterQRConnectionError or
\* a response without a token) the reauth flow shows the reauth_confirm form,
\* and when a code verification of a reauth flow succeeds, the entry the
\* flow was started for holds the token that verification returned.
C6_ReauthFallback ==
    /\ (/\ last.op = "async_step_reauth"
        /\ \/ last.api \in {"InterQRAuthError", "InterQRConnectionError"}
           \/ last.api = "ok" /\ ~Truthy(last.token)) =>
          /\ flow.step = "reauth_confirm"
          /\ flow.result = "form"
    /\ (/\ flow.source = "reauth"
        /\ last.op = "async_step_verify"
        /\ last.api = "ok"
        /\ flow.entry_id \in last.ids0) =>
          \E e \in entries : e.entry_id = flow.entry_id /\ e.data.token = last.token

\* C7: an entry appears only in a successful async_step_verify, at the end
\* of a 2FA session whose calls were init_device (returned), start_2fa
\* (returned), then verify_2fa calls of which only the last returned; the
\* entry stores the non-empty token of that last call, and the device_uuid
\* and phone sent in the session's start_2fa and verify_2fa requests.
C7_OnboardingOrder ==
    \A e \in entries : e.entry_id \notin last.ids0 =>
        /\ last.op = "async_step_verify"
        /\ last.api = "ok"
        /\ flow.step = "done"
        /\ flow.result = "create_entry"
        /\ Len(flow_log) >= 3
        /\ flow_log[1].endpoint = "init" /\ flow_log[1].ok
        /\ flow_log[2].endpoint = "twofa/start" /\ flow_log[2].ok
        /\ \A i \in 3..Len(flow_log) :
              /\ flow_log[i].endpoint = "twofa/verify"
              /\ flow_log[i].ok <=> i = Len(flow_log)
              /\ flow_log[i].number = flow_log[2].number
              /\ flow_log[i].device_uuid = flow_log[2].device_uuid
        /\ Truthy(flow_log[Len(flow_log)].token)
        /\ e.data.token = flow_log[Len(flow_log)].token
        /\ e.data.device_uuid = flow_log[2].device_uuid
        /\ e.data.device_uuid = flow_log[1].device_uuid
        /\ e.data.phone = flow_log[2].number

\* an entry created by a user flow whose first code was rejected, on a
\* server that answered init_device with a device_uuid of its own
C7_Witness ==
    /\ last.op = "async_step_verify"
    /\ flow.source = "user"
    /\ flow.result = "create_entry"
    /\ Len(flow_log) >= 4
    /\ flow.api.device_uuid = "devS"
    /\ \E e \in entries : e.entry_id \notin last.ids0 /\ e.data.token = last.token

\* C8: in a 2FA session at most MAX_2FA_ATTEMPTS verify_2fa calls are made;
\* a successful start_2fa leaves the counter at 0; every submission to
\* async_step_verify raises the counter by one, a malformed code included
\* (which makes no call); a submission made with the counter at the limit
\* aborts with too_many_attempts, makes no call and leaves the entries alone,
\* and no earlier submission aborts so.
C8_AttemptLimit ==
    /\ Cardinality(CallsTo("twofa/verify")) <= MAX_2FA_ATTEMPTS
    /\ (last.op \in {"async_step_user", "async_step_reauth_confirm"}
            /\ flow.step = "verify") =>
          /\ flow.attempts = 0
          /\ Len(flow_log) = 2
          /\ flow_log[2].endpoint = "twofa/start" /\ flow_log[2].ok
    /\ last.op = "async_step_verify" =>
          /\ flow.attempts = last.attempts0 + 1
          /\ Cardinality(CallsTo("twofa/verify")) <= flow.attempts
          /\ Len(flow_log) \in {last.log0, last.log0 + 1}
          /\ ~last.valid => Len(flow_log) = last.log0 /\ EntryIdsOf(entries) = last.ids0
          /\ IF last.attempts0 >= MAX_2FA_ATTEMPTS
             THEN /\ flow.step = "done"
                  /\ flow.result = "abort"
                  /\ flow.reason = "too_many_attempts"
                  /\ Len(flow_log) = last.log0
                  /\ EntryIdsOf(entries) = last.ids0
             ELSE flow.reason # "too_many_attempts"

\* the sixth submission of a session in which five codes reached the server
C8_Witness ==
    /\ last.op = "async_step_verify"
    /\ flow.reason = "too_many_attempts"
    /\ last.attempts0 = MAX_2FA_ATTEMPTS
    /\ Cardinality(CallsTo("twofa/verify")) = MAX_2FA_ATTEMPTS

\* a malformed code used up an attempt without a call
C8_WitnessInvalid ==
    /\ last.op = "async_step_verify"
    /\ ~last.valid
    /\ flow.attempts = MAX_2FA_ATTEMPTS
    /\ Cardinality(CallsTo("twofa/verify")) = MAX_2FA_ATTEMPTS - 1

(***************************************************************************)
(* api.py: InterQRApiClient on its own.  Each action is one call of a      *)
(* method of a client holding token and api_device_uuid; sent is left      *)
(* holding the requests that call handed to the session.                   *)
(***************************************************************************)
\* the requests of the calls in an authentication log
WiresOf(log) ==
    [i \in 1..Len(log) |->
        [endpoint |-> log[i].endpoint, authorization |-> log[i].authorization]]

Client == [token |-> token, device_uuid |-> api_device_uuid]

RequestBodies == {[has_data |-> TRUE]}

\* /twofa/verify and /login bodies with the token the server put in them
ApiTokenBodies ==
    {[has_data |-> FALSE, token |-> None, uuid |-> None]}
    \cup [has_data : {TRUE}, token : {None, "", "tokB"}, uuid : {"usr1"}]

ApiTokenOutcomes == {request(resp) : resp \in Responses(ApiTokenBodies)}
DetailsOutcomes == {x.r : x \in DetailsExchanges}
LogoutOutcomes == {x.r : x \in LogoutExchanges}

\* device_uuid arguments of init_device, start_2fa, verify_2fa; of login
ArgUuids == {"dev2"}
LoginArgs == {None, "", "dev2"}
\* lock_uuid arguments of unlock / unlock_long
ApiLockUuids == LockUuids \cup { <<>> }

\* get_user_details on a client holding tok
get_user_details(tok, r) ==
    [sent |-> <<Wire("user_details", TRUE, tok)>>,
     raised |-> IF r.kind = "data" THEN "none" ELSE r.kind]

\* unlock (endpoint "unlock") and unlock_long (endpoint "unlock-long")
unlock(tok, endpoint, id, r) ==
    IF ~validate_uuid(id)
    THEN [sent |-> <<>>, raised |-> "ValueError"]
    ELSE [sent |-> <<Wire(<<endpoint, id>>, TRUE, tok)>>,
          raised |-> IF r.kind = "data" THEN "none" ELSE r.kind]

\* what a call of a client method saw on entry, and how it ended
ApiEntered(op, arg, r, raised) ==
    [op |-> op, arg |-> arg, resp |-> None, r |-> r, raised |-> raised,
     tok0 |-> token, dev0 |-> api_device_uuid]

\* _request(method, endpoint, authenticated=...) called directly
ApiRequest ==
    \E authenticated \in BOOLEAN, resp \in Responses(RequestBodies) :
        LET r == request(resp)
        IN  /\ sent' = <<Wire("request", authenticated, token)>>
            /\ last' = [ApiEntered("request", authenticated, r,
                                   IF r.kind = "data" THEN "none" ELSE r.kind)
                           EXCEPT !.resp = resp]
            /\ UNCHANGED <<token, api_device_uuid, lockVars, entryVars, flowVars>>

ApiInitDevice ==
    \E d \in ArgUuids, r \in InitOutcomes :
        LET o == init_device(Client, d, r)
        IN  /\ token' = o.client.token
            /\ api_device_uuid' = o.client.device_uuid
            /\ sent' = WiresOf(o.log)
            /\ last' = ApiEntered("init_device", d, r, o.raised)
            /\ UNCHANGED <<lockVars, entryVars, flowVars>>

ApiStart2fa ==
    \E d \in ArgUuids, r \in StartOutcomes :
        LET o == start_2fa(Client, <<"+", "1", "2", "3", "4", "5", "6", "7">>, d, r)
        IN  /\ sent' = WiresOf(o.log)
            /\ last' = ApiEntered("start_2fa", d, r, o.raised)
            /\ UNCHANGED <<token, api_device_uuid, lockVars, entryVars, flowVars>>

ApiVerify2fa ==
    \E d \in ArgUuids, r \in ApiTokenOutcomes :
        LET o == verify_2fa(Client, <<"+", "1", "2", "3", "4", "5", "6", "7">>, d, r)
        IN  /\ token' = o.client.token
            /\ api_device_uuid' = o.client.device_uuid
            /\ sent' = WiresOf(o.log)
            /\ last' = ApiEntered("verify_2fa", d, r, o.raised)
            /\ UNCHANGED <<lockVars, entryVars, flowVars>>

ApiLogin ==
    \E d \in LoginArgs, r \in ApiTokenOutcomes :
        LET o == login(Client, d, r)
        IN  /\ token' = o.client.token
            /\ api_device_uuid' = o.client.device_uuid
            /\ sent' = WiresOf(o.log)
            /\ last' = ApiEntered("login", d, r, o.raised)
            /\ UNCHANGED <<lockVars, entryVars, flowVars>>

ApiLogout ==
    \E r \in LogoutOutcomes :
        LET o == logout(token, r)
        IN  /\ token' = o.token
            /\ sent' = o.sent
            /\ last' = ApiEntered("logout", None, r, o.raised)
            /\ UNCHANGED <<api_device_uuid, lockVars, entryVars, flowVars>>

ApiGetUserDetails ==
    \E r \in DetailsOutcomes :
        LET o == get_user_details(token, r)
        IN  /\ sent' = o.sent
            /\ last' = ApiEntered("get_user_details", None, r, o.raised)
            /\ UNCHANGED <<token, api_device_uuid, lockVars, entryVars, flowVars>>

ApiUnlock ==
    \E id \in ApiLockUuids, r \in UnlockOutcomes :
        LET o == unlock(token, "unlock", id, r)
        IN  /\ sent' = o.sent
            /\ last' = ApiEntered("unlock", id, r, o.raised)
            /\ UNCHANGED <<token, api_device_uuid, lockVars, entryVars, flowVars>>

ApiUnlockLong ==
    \E id \in ApiLockUuids, r \in UnlockOutcomes :
        LET o == unlock(token, "unlock-long", id, r)
        IN  /\ sent' = o.sent
            /\ last' = ApiEntered("unlock_long", id, r, o.raised)
            /\ UNCHANGED <<token, api_device_uuid, lockVars, entryVars, flowVars>>

\* InterQRApiClient.__init__ as async_setup_entry (stored token and
\* device_uuid) and the config flow (neither) call it
InitApi ==
    /\ \/ token = None /\ api_device_uuid = None
       \/ token = "tokA" /\ api_device_uuid = "dev1"
    /\ sent = <<>>
    /\ last = [op |-> "init", arg |-> None, resp |-> None, r |-> [kind |-> "none"],
               raised |-> "none", tok0 |-> token, dev0 |-> api_device_uuid]
    /\ EntryIdle
    /\ LockIdle
    /\ FlowIdle

NextApi ==
    \/ ApiRequest
    \/ ApiInitDevice
    \/ ApiStart2fa
    \/ ApiVerify2fa
    \/ ApiLogin
    \/ ApiLogout
    \/ ApiGetUserDetails
    \/ ApiUnlock
    \/ ApiUnlockLong

SpecApi == InitApi /\ [][NextApi]_vars

(***************************************************************************)
(* Properties of the API client.                                           *)
(***************************************************************************)
\* the first check of _request, in the order content type, size, JSON,
\* status, that a response fails ("none" when it passes all four)
FirstFailedCheck(resp) ==
    IF ~HasJsonContentType(resp.ctype) THEN "content_type"
    ELSE IF resp.size > MAX_RESPONSE_BYTES THEN "size"
    ELSE IF ~resp.json_ok THEN "json"
    ELSE IF resp.status >= 400 THEN "status"
    ELSE "none"

\* C11: for a response the server gave, _request returns the parsed body
\* exactly when the content type is JSON, the body is within
\* MAX_RESPONSE_BYTES, it parses and the status is below 400; it raises
\* InterQRAuthError exactly when the first three hold and the status is 401;
\* it raises InterQRConnectionError for every other response; and the
\* exception raised comes from the first failing check in the order content
\* type, size, JSON, status.  One request is sent.
C11_RequestResult ==
    (last.op = "request" /\ last.resp.transport = "ok") =>
        LET resp == last.resp
            passed == /\ HasJsonContentType(resp.ctype)
                      /\ resp.size <= MAX_RESPONSE_BYTES
                      /\ resp.json_ok
        IN  /\ last.r.kind = "data" <=> (passed /\ resp.status < 400)
            /\ last.r.kind = "data" => last.r.data = resp.body
            /\ last.r.kind = "InterQRAuthError" <=> (passed /\ resp.status = 401)
            /\ last.r.kind \in {"data", "InterQRAuthError", "InterQRConnectionError"}
            /\ last.r.kind # "data" => last.r.check = FirstFailedCheck(resp)
            /\ Len(sent) = 1

\* a 401 answered with an HTML body is a connection error
C11_Witness ==
    /\ last.op = "request"
    /\ last.resp.transport = "ok"
    /\ last.resp.status = 401
    /\ last.resp.ctype = "text/html"
    /\ last.r.kind = "InterQRConnectionError"
    /\ last.r.check = "content_type"

\* a JSON body of exactly MAX_RESPONSE_BYTES with status 399 is returned
C11_WitnessData ==
    /\ last.op = "request"
    /\ last.resp.transport = "ok"
    /\ last.resp.size = MAX_RESPONSE_BYTES
    /\ last.resp.status = 399
    /\ last.r.kind = "data"

\* the token handling of verify_2fa on a client of its own: the token is
\* replaced exactly when the response carries a non-empty data.token, a
\* response without one raises InterQRAuthError, and a call that raises
\* leaves the token as it was
verify_2fa_TokenHandling ==
    last.op = "verify_2fa" =>
        LET tok == IF last.r.kind = "data" THEN DataGet(last.r, "token") ELSE None
        IN  /\ Len(sent) = 1
            /\ IF Truthy(tok)
               THEN last.raised = "none" /\ token = tok
               ELSE last.raised # "none" /\ token = last.tok0
            /\ (last.r.kind = "data" /\ ~Truthy(tok)) => last.raised = "InterQRAuthError"
            /\ last.r.kind # "data" => last.raised = last.r.kind

\* C12: a verify_2fa call of a flow replaces the client's token exactly
\* when it returns, by the non-empty token of the response; whenever it
\* raises, the client's token is unchanged (a flow's client holds none
\* before verification), no entry is created, and the flow shows the
\* verify form again with an error.
C12_VerifyTokenHandling ==
    (last.op = "async_step_verify" /\ Len(flow_log) = last.log0 + 1) =>
        LET rec == flow_log[Len(flow_log)]
        IN  /\ rec.endpoint = "twofa/verify"
            /\ rec.ok <=> last.api = "ok"
            /\ rec.ok => Truthy(rec.token) /\ flow.api.token = rec.token
            /\ ~rec.ok =>
                  /\ flow.api.token = None
                  /\ EntryIdsOf(entries) = last.ids0
                  /\ flow.step = "verify"
                  /\ flow.result = "form"
                  /\ flow.reason \in {"invalid_auth", "cannot_connect"}

\* C13: logout on a client without a token sends nothing; on a client with
\* a token it sends one /logout request carrying that token, returns
\* normally when the request succeeds or raises InterQRAuthError or
\* InterQRConnectionError, lets any other exception through, and in every
\* case leaves the client without a token (None).
C13_LogoutClears ==
    last.op = "logout" =>
        /\ token = None
        /\ IF Truthy(last.tok0)
           THEN /\ sent = <<Wire("logout", TRUE, last.tok0)>>
                /\ sent[1].authorization = <<"Bearer", last.tok0>>
                /\ last.r.kind \in {"data", "InterQRAuthError", "InterQRConnectionError"}
                      => last.raised = "none"
                /\ last.r.kind \notin {"data", "InterQRAuthError", "InterQRConnectionError"}
                      => last.raised = last.r.kind
           ELSE sent = <<>> /\ last.raised = "none"

\* the /logout request timed out: the exception leaves logout, the token is gone
C13_Witness ==
    /\ last.op = "logout"
    /\ Truthy(last.tok0)
    /\ last.raised = "TimeoutError"
    /\ token = None
    /\ Len(sent) = 1

\* the /logout request was answered 401: swallowed, the token is gone
C13_WitnessSwallowed ==
    /\ last.op = "logout"
    /\ Truthy(last.tok0)
    /\ last.r.kind = "InterQRAuthError"
    /\ last.raised = "none"
    /\ token = None

\* C14: login with neither an argument nor a client device_uuid raises
\* InterQRAuthError and sends nothing; otherwise it sends one /login
\* request, and the client's token becomes the data.token of the response
\* when that is non-empty and stays as it was in every other case; a
\* response without a token returns normally.
C14_Login ==
    last.op = "login" =>
        LET tok == IF last.r.kind = "data" THEN DataGet(last.r, "token") ELSE None
        IN  /\ api_device_uuid = last.dev0
            /\ IF ~Truthy(last.arg) /\ ~Truthy(last.dev0)
               THEN /\ last.raised = "InterQRAuthError"
                    /\ sent = <<>>
                    /\ token = last.tok0
               ELSE /\ Len(sent) = 1
                    /\ sent[1].endpoint = "login"
                    /\ token = IF Truthy(tok) THEN tok ELSE last.tok0
                    /\ last.r.kind = "data" => last.raised = "none"
                    /\ last.r.kind # "data" => last.raised = last.r.kind

\* no device_uuid anywhere: InterQRAuthError without a request
C14_Witness ==
    /\ last.op = "login"
    /\ last.arg = ""
    /\ last.dev0 = None
    /\ last.raised = "InterQRAuthError"
    /\ sent = <<>>

\* a response whose token is empty returns normally and keeps the old token
C14_WitnessNoToken ==
    /\ last.op = "login"
    /\ last.r.kind = "data"
    /\ last.r.data.has_data
    /\ last.r.data.token = ""
    /\ last.raised = "none"
    /\ token = "tokA"

\* the client's own device_uuid is used when the argument is None
C14_WitnessReplaced ==
    /\ last.op = "login"
    /\ last.arg = None
    /\ Truthy(last.dev0)
    /\ last.tok0 = "tokA"
    /\ token = "tokB"

UnauthenticatedOps == {"init_device", "start_2fa", "verify_2fa", "login"}
AuthenticatedOps == {"get_user_details", "unlock", "unlock_long", "logout"}

\* C15: a request of init_device, start_2fa, verify_2fa or login carries no
\* Authorization header whatever token the client holds; a request of
\* get_user_details, unlock, unlock_long or logout carries "Bearer <token>"
\* when the client holds a token and no Authorization header when it holds
\* none; _request itself attaches the header only when called with
\* authenticated=True on a client holding a token.
C15_BearerOnlyWhereNeeded ==
    \A i \in 1..Len(sent) :
        /\ last.op \in UnauthenticatedOps => sent[i].authorization = None
        /\ last.op \in AuthenticatedOps =>
              sent[i].authorization =
                  IF Truthy(last.tok0) THEN <<"Bearer", last.tok0>> ELSE None
        /\ last.op = "request" =>
              sent[i].authorization =
                  IF last.arg /\ Truthy(last.tok0) THEN <<"Bearer", last.tok0>> ELSE None

\* a client holding a token logs in again: the request carries no header
C15_Witness ==
    /\ last.op = "login"
    /\ Truthy(last.tok0)
    /\ Len(sent) = 1
    /\ sent[1].authorization = None

\* an authenticated request of a client holding a token carries it
C15_WitnessBearer ==
    /\ last.op = "unlock_long"
    /\ last.tok0 = "tokB"
    /\ Len(sent) = 1
    /\ sent[1].authorization = <<"Bearer", "tokB">>

\* an authenticated request of a client without a token carries no header
C15_WitnessNoToken ==
    /\ last.op = "get_user_details"
    /\ last.tok0 = None
    /\ Len(sent) = 1
    /\ sent[1].authorization = None

\* an identifier that is empty or has a character other than an ASCII
\* letter, a digit or a hyphen
UnsafeId(id) == Len(id) = 0 \/ \E i \in 1..Len(id) : id[i] \notin SafeIdChars

\* C16: when the entity's lock_uuid is empty or has a character other than
\* ASCII letters, digits and hyphen, an async_unlock / async_open that reaches
\* the API call sends no request: it ends with ValueError raised to the
\* caller and the entity reporting is_locked = true.
C16_ValidationPrecedesRequest ==
    (last.op \in UnlockOps /\ last.out # "unsupported" /\ UnsafeId(lock_uuid)) =>
        /\ Len(sent) = last.n0
        /\ last.out = "ValueError"
        /\ attr_is_locked
        /\ ~attr_is_unlocking

\* the same for the client methods unlock and unlock_long called directly
unlock_ValidationPrecedesRequest ==
    (last.op \in {"unlock", "unlock_long"} /\ UnsafeId(last.arg)) =>
        sent = <<>> /\ last.raised = "ValueError"

\* C17: coordinator data is always a mapping with the single key locks; a
\* refresh succeeds only on a response with a data object, and then stores
\* the response's lock list, or the empty list when data has no locks key;
\* a response without a data object and an InterQRConnectionError end as
\* UpdateFailed; a refresh that does not succeed leaves the data as it was.
C17_LocksOnly ==
    /\ \A e \in EntryIds :
          coord_data[e] # NoData => DOMAIN coord_data[e] = {"locks"}
    /\ last.op \in {"first_refresh", "poll"} =>
          /\ last.out = "ok" =>
                /\ last.api = "data"
                /\ last.body.has_data
                /\ coord_data[last.e] =
                      [locks |-> IF last.body.has_locks THEN last.body.locks ELSE <<>>]
          /\ (last.api = "data" /\ ~last.body.has_data) => last.out = "UpdateFailed"
          /\ last.api = "InterQRConnectionError" => last.out = "UpdateFailed"
          /\ last.out # "ok" => coord_data[last.e] = last.c0

\* a poll stored the lock list of a response that also carried the user's name
C17_Witness ==
    /\ last.op = "poll"
    /\ last.out = "ok"
    /\ last.body.name = "Alice"
    /\ last.body.has_locks
    /\ coord_data[last.e] = [locks |-> <<"lockA">>]
    /\ last.c0 = [locks |-> <<>>]

\* a response whose data has no locks key gives the empty list
C17_WitnessNoLocks ==
    /\ last.op \in {"first_refresh", "poll"}
    /\ last.out = "ok"
    /\ ~last.body.has_locks
    /\ coord_data[last.e] = [locks |-> <<>>]

\* a poll without a data object fails and keeps the data of the poll before
C17_WitnessFailed ==
    /\ last.op = "poll"
    /\ last.api = "data"
    /\ ~last.body.has_data
    /\ last.out = "UpdateFailed"
    /\ coord_data[last.e] = [locks |-> <<"lockA">>]

====
